---------------------------- MODULE Spec2Model ----------------------------
(***************************************************************************)
(* A model of the level-2 order book of lalamm/orderlevel2.                *)
(*                                                                         *)
(*   engine/src/lib.rs   OrderBook: two depth maps (price -> aggregate     *)
(*                       quantity) and the order index; the Level2View     *)
(*                       operations.                                       *)
(*   server/src/main.rs  server_loop (the order manager actor) and         *)
(*                       client_loop (one session per connection).         *)
(*                                                                         *)
(* Two specifications share the variables:                                 *)
(*   EngineSpec  drives one OrderBook directly with the Level2View calls,  *)
(*               the way the unit tests of engine/src/lib.rs do;           *)
(*   Spec        runs server_loop against a number of client_loop tasks.   *)
(*                                                                         *)
(* A Rust panic is modelled as a fault: the operation's result carries the *)
(* fields as they stand at the panic (what unwinding leaves behind), and   *)
(* the task that panicked takes no further step.                           *)
(***************************************************************************)
EXTENDS Integers, Sequences, FiniteSets, TLC

\* ------------------------------------------------------------- bounds
\* Engine harness: order ids 1..MaxOrderId and quantities 0..MaxQty.
MaxOrderId == 2
MaxQty == 2

\* Actor: connections 1..MaxSessions, which between them forward at most
\* MaxRequests requests.
MaxSessions == 2
MaxRequests == 2

Sides == {"Bid", "Ask"}
\* The two prices of the unit tests (engine/src/lib.rs:138, 143).
Prices == {11, 12}
Quantities == 0..MaxQty
OrderIds == 1..MaxOrderId
Sessions == 1..MaxSessions

VARIABLES
  \* OrderBook (engine/src/lib.rs:30-34)
  bids, asks, orders,
  \* harness bookkeeping of EngineSpec: the last call that returned, the call
  \* that panicked (if one did) and its panic, and what the last query returned
  \* (-1: nothing)
  call, failed, fault, ret,
  \* server_loop (server/src/main.rs:22-26) and its queue; in Spec, fault is the
  \* panic that ended server_loop ("none" while it runs)
  order_counter, client_counter, clients, client_orders, events,
  \* client_loop, per connection: where it is ("idle": not accepted yet, "loop",
  \* "done": returned, "decode_panic", "write_panic"), its client_id (-1: None)
  \* and the messages waiting in its channel (client_rx)
  pc, client_id, sink,
  \* history: the PlaceOrder and ClientDisconnected events enqueued so far, in
  \* queue order, and the number of requests the sessions have forwarded
  log, requests,
  \* history: the first message each connection's channel was ever handed
  \* (kind "none": nothing yet)
  first

engineVars == <<bids, asks, orders>>
harnessVars == <<call, failed, ret>>
actorVars == <<order_counter, client_counter, clients, client_orders>>
sessionVars == <<pc, client_id>>
serverVars == <<order_counter, client_counter, clients, client_orders, events,
                pc, client_id, sink, log, requests, first>>
vars == <<bids, asks, orders, call, failed, fault, ret,
          order_counter, client_counter, clients, client_orders, events,
          pc, client_id, sink, log, requests, first>>

\* ------------------------------------------------------------- maps
\* BTreeMap / HashMap insert and remove on a function with a finite domain.
Put(m, k, v) == [x \in DOMAIN m \cup {k} |-> IF x = k THEN v ELSE m[x]]

Remove(m, k) == [x \in DOMAIN m \ {k} |-> m[x]]

EmptyMap == [x \in {} |-> 0]

\* `match side { Side::Ask => &mut self.asks, Side::Bid => &mut self.bids }`
BookOf(b, side) == IF side = "Ask" THEN b.asks ELSE b.bids

WithBook(b, side, m) ==
  IF side = "Ask" THEN [b EXCEPT !.asks = m] ELSE [b EXCEPT !.bids = m]

\* OrderBook::default()
EmptyBook == [bids |-> EmptyMap, asks |-> EmptyMap, orders |-> EmptyMap]

\* ------------------------------------------------------------- engine
\* Each operation maps a book to [book |-> the fields after the call (at the
\* panic, when it panics), fault |-> "none" or the panic that ended it].

\* on_new_order: the level is created and increased and the index entry is
\* inserted (replacing an entry of the same id) before the duplicate check fires.
on_new_order(b, side, price, quantity, order_id) ==
  LET book == BookOf(b, side)
      order_depth == (IF price \in DOMAIN book THEN book[price] ELSE 0) + quantity
      b1 == WithBook(b, side, Put(book, price, order_depth))
      b2 == [b1 EXCEPT !.orders =
               Put(b.orders, order_id,
                   [side |-> side, price |-> price, quantity |-> quantity])]
  IN [book |-> b2,
      fault |-> IF order_id \in DOMAIN b.orders THEN "DuplicateOrderId" ELSE "none"]

\* on_cancel_order: orders.remove, then the level is looked up and decreased, and
\* removed when it reaches zero. `*order_depth -= quantity` on a smaller depth is
\* the arithmetic panic of a debug build.
on_cancel_order(b, order_id) ==
  IF order_id \notin DOMAIN b.orders
  THEN [book |-> b, fault |-> "UnknownOrderId"]
  ELSE LET o == b.orders[order_id]
           b1 == [b EXCEPT !.orders = Remove(b.orders, order_id)]
           book == BookOf(b1, o.side)
       IN IF o.price \notin DOMAIN book
          THEN [book |-> b1, fault |-> "MissingLevel"]
          ELSE IF book[o.price] < o.quantity
          THEN [book |-> b1, fault |-> "Underflow"]
          ELSE LET order_depth == book[o.price] - o.quantity
               IN [book |-> IF order_depth = 0
                            THEN WithBook(b1, o.side, Remove(book, o.price))
                            ELSE WithBook(b1, o.side, Put(book, o.price, order_depth)),
                   fault |-> "none"]

\* on_replace_order with the cancel half left out: the old level keeps the old
\* quantity.
on_replace_order_no_cancel(b, price, quantity, order_id) ==
  IF order_id \notin DOMAIN b.orders
  THEN [book |-> b, fault |-> "UnknownOrderId"]
  ELSE on_new_order([b EXCEPT !.orders = Remove(b.orders, order_id)],
                    b.orders[order_id].side, price, quantity, order_id)

\* on_replace_order: the side is read from the index, then cancel, then place
\* under the same id.
on_replace_order(b, price, quantity, order_id) ==
  IF order_id \notin DOMAIN b.orders
  THEN [book |-> b, fault |-> "UnknownOrderId"]
  ELSE LET current_order_side == b.orders[order_id].side
           c == on_cancel_order(b, order_id)
       IN IF c.fault # "none"
          THEN c
          ELSE on_new_order(c.book, current_order_side, price, quantity, order_id)

\* on_trade with the level left as it was (the "also subtract from book" half
\* of lines 95-101 missing).
on_trade_index_only(b, quantity, resting_order_id) ==
  IF resting_order_id \notin DOMAIN b.orders
  THEN [book |-> b, fault |-> "UnknownOrderId"]
  ELSE IF quantity > b.orders[resting_order_id].quantity
  THEN [book |-> b, fault |-> "Overtrade"]
  ELSE [book |-> [b EXCEPT !.orders[resting_order_id].quantity = @ - quantity],
        fault |-> "none"]

\* on_trade with saturating_sub in place of checked_sub: an overtrade empties
\* the order instead of failing.
on_trade_saturating(b, quantity, resting_order_id) ==
  IF resting_order_id \notin DOMAIN b.orders
  THEN [book |-> b, fault |-> "UnknownOrderId"]
  ELSE LET o == b.orders[resting_order_id]
           traded == IF quantity > o.quantity THEN o.quantity ELSE quantity
           b1 == [b EXCEPT !.orders[resting_order_id].quantity = o.quantity - traded]
           book == BookOf(b1, o.side)
       IN IF o.price \notin DOMAIN book \/ book[o.price] < traded
          THEN [book |-> b1, fault |-> "MissingLevel"]
          ELSE [book |-> WithBook(b1, o.side,
                                  Put(book, o.price, book[o.price] - traded)),
                fault |-> "none"]

\* on_trade: checked_sub on the resting quantity, then the level is decreased.
\* Neither the order nor the level is removed.
on_trade(b, quantity, resting_order_id) ==
  IF resting_order_id \notin DOMAIN b.orders
  THEN [book |-> b, fault |-> "UnknownOrderId"]
  ELSE LET o == b.orders[resting_order_id]
       IN IF quantity > o.quantity
          THEN [book |-> b, fault |-> "Overtrade"]
          ELSE LET b1 == [b EXCEPT !.orders[resting_order_id].quantity =
                                      o.quantity - quantity]
                   book == BookOf(b1, o.side)
               IN IF o.price \notin DOMAIN book
                  THEN [book |-> b1, fault |-> "MissingLevel"]
                  ELSE IF book[o.price] < quantity
                  THEN [book |-> b1, fault |-> "Underflow"]
                  ELSE [book |-> WithBook(b1, o.side,
                                          Put(book, o.price, book[o.price] - quantity)),
                        fault |-> "none"]

\* Queries: [fault |-> "none" or the panic, value |-> the result (-1 on a panic)].
get_size_for_price_level(b, side, price) ==
  LET book == BookOf(b, side)
  IN IF price \in DOMAIN book
     THEN [fault |-> "none", value |-> book[price]]
     ELSE [fault |-> "NoSuchPriceLevel", value |-> -1]

get_book_depth(b, side) == Cardinality(DOMAIN BookOf(b, side))

\* bids.iter().rev().next() is the greatest key, asks.iter().next() the least.
get_top_of_book(b, side) ==
  LET book == BookOf(b, side)
  IN IF DOMAIN book = {}
     THEN [fault |-> "EmptyBook", value |-> -1]
     ELSE [fault |-> "none",
           value |-> IF side = "Bid"
                     THEN CHOOSE p \in DOMAIN book : \A q \in DOMAIN book : q <= p
                     ELSE CHOOSE p \in DOMAIN book : \A q \in DOMAIN book : p <= q]

\* ------------------------------------------------------------- engine harness
TheBook == [bids |-> bids, asks |-> asks, orders |-> orders]

\* No ToClient message.
NoMsg == [kind |-> "none", side |-> "Bid", n |-> 0, price |-> 0]

NoCall == [op |-> "none", side |-> "Bid", price |-> 0, quantity |-> 0, order_id |-> 0]

Init ==
  /\ bids = EmptyMap
  /\ asks = EmptyMap
  /\ orders = EmptyMap
  /\ call = NoCall
  /\ failed = NoCall
  /\ fault = "none"
  /\ ret = -1
  /\ order_counter = 0
  /\ client_counter = 0
  /\ clients = EmptyMap
  /\ client_orders = EmptyMap
  /\ events = <<>>
  /\ pc = [s \in Sessions |-> "idle"]
  /\ client_id = [s \in Sessions |-> -1]
  /\ sink = [s \in Sessions |-> <<>>]
  /\ log = <<>>
  /\ requests = 0
  /\ first = [s \in Sessions |-> NoMsg]

\* The call of the step just taken.
LastCall == IF fault = "none" THEN call ELSE failed

\* The harness keeps what call c left behind: r is a mutating operation's
\* [book, fault].
Store(c, r) ==
  /\ bids' = r.book.bids
  /\ asks' = r.book.asks
  /\ orders' = r.book.orders
  /\ fault' = r.fault
  /\ ret' = -1
  /\ IF r.fault = "none"
     THEN call' = c /\ failed' = failed
     ELSE call' = call /\ failed' = c
  /\ UNCHANGED serverVars

\* The same for a query's [fault, value].
Answer(c, r) ==
  /\ fault' = r.fault
  /\ ret' = r.value
  /\ IF r.fault = "none"
     THEN call' = c /\ failed' = failed
     ELSE call' = call /\ failed' = c
  /\ UNCHANGED <<engineVars, serverVars>>

\* A panic ends the test thread: no call follows a fault.
Place ==
  /\ fault = "none"
  /\ \E side \in Sides, price \in Prices, quantity \in Quantities, id \in OrderIds :
    /\ Store([op |-> "place", side |-> side, price |-> price,
              quantity |-> quantity, order_id |-> id],
             on_new_order(TheBook, side, price, quantity, id))

Cancel ==
  /\ fault = "none"
  /\ \E id \in OrderIds :
    /\ Store([NoCall EXCEPT !.op = "cancel", !.order_id = id],
             on_cancel_order(TheBook, id))

Replace ==
  /\ fault = "none"
  /\ \E price \in Prices, quantity \in Quantities, id \in OrderIds :
    /\ Store([NoCall EXCEPT !.op = "replace", !.price = price,
                            !.quantity = quantity, !.order_id = id],
             on_replace_order(TheBook, price, quantity, id))

\* Trades of up to one more than any order can hold.
Trade ==
  /\ fault = "none"
  /\ \E quantity \in 0..(MaxQty + 1), id \in OrderIds :
    /\ Store([NoCall EXCEPT !.op = "trade", !.quantity = quantity, !.order_id = id],
             on_trade(TheBook, quantity, id))

SizeAt ==
  /\ fault = "none"
  /\ \E side \in Sides, price \in Prices :
    /\ Answer([NoCall EXCEPT !.op = "size_at", !.side = side, !.price = price],
              get_size_for_price_level(TheBook, side, price))

Depth ==
  /\ fault = "none"
  /\ \E side \in Sides :
    /\ Answer([NoCall EXCEPT !.op = "depth", !.side = side],
              [fault |-> "none", value |-> get_book_depth(TheBook, side)])

TopOfBook ==
  /\ fault = "none"
  /\ \E side \in Sides :
    /\ Answer([NoCall EXCEPT !.op = "top_of_book", !.side = side],
              get_top_of_book(TheBook, side))

EngineNext == Place \/ Cancel \/ Replace \/ Trade \/ SizeAt \/ Depth \/ TopOfBook

EngineSpec == Init /\ [][EngineNext]_vars

\* ------------------------------------------------------------- messages
\* ToOrderManager (server/src/main.rs:13-20). who is the sender's channel (the
\* connection) in ClientConnected and the ClientId in every other event. seen is
\* history: how many entries log held when the event was enqueued.
Event(kind, who, side, price, quantity) ==
  [kind |-> kind, who |-> who, side |-> side, price |-> price,
   quantity |-> quantity, seen |-> 0]

\* ToClient (server/src/lib.rs:17-23). n is the ClientId of Connected and the
\* quantity of LatestDepth, BookDepth and SizeForPriceLevel.
Msg(kind, side, n, price) == [kind |-> kind, side |-> side, n |-> n, price |-> price]

\* The prices and quantities clients send: one price, and an empty and a
\* non-empty order.
RequestPrices == {11}
RequestQuantities == {0, 1}

\* ToServer (server/src/lib.rs:8-13) as client_loop forwards it for client c.
Requests(c) ==
  {Event("PlaceOrder", c, side, price, quantity) :
     side \in Sides, price \in RequestPrices, quantity \in RequestQuantities}
  \cup {Event("GetOrderDepth", c, side, 0, 0) : side \in Sides}
  \cup {Event("GetTopOfBook", c, side, 0, 0) : side \in Sides}
  \cup {Event("GetSizeForPriceLevel", c, side, price, 0) :
          side \in Sides, price \in RequestPrices}

\* The events that change the book.
Mutates(e) == e.kind \in {"PlaceOrder", "ClientDisconnected"}

\* ------------------------------------------------------------- channels
\* A session's receiver lives from the start of client_loop to its return or panic.
SinkOpen(s) == pc[s] = "loop"

\* The queue handing out the newest event first.
ToServerSendFront(e) ==
  IF fault = "none"
  THEN /\ events' = <<[e EXCEPT !.seen = Len(log)]>> \o events
       /\ log' = IF Mutates(e) THEN Append(log, e) ELSE log
  ELSE UNCHANGED <<events, log>>

\* UnboundedSender::send on the actor's queue: the event is enqueued unless
\* server_loop has ended (its receiver dropped), in which case send returns Err,
\* which every caller ignores or only prints.
ToServerSend(e) ==
  IF fault = "none"
  THEN /\ events' = Append(events, [e EXCEPT !.seen = Len(log)])
       /\ log' = IF Mutates(e) THEN Append(log, e) ELSE log
  ELSE UNCHANGED <<events, log>>

\* The broadcast loop ending after its first send.
DeliverToFirst(set, m) ==
  [s \in Sessions |->
     IF s \in set /\ SinkOpen(s) /\ (\A t \in set : s <= t)
     THEN Append(sink[s], m) ELSE sink[s]]

\* The broadcast given up as a whole when one channel of the set is closed.
DeliverAllOrNone(set, m) ==
  IF \A t \in set : SinkOpen(t)
  THEN [s \in Sessions |-> IF s \in set THEN Append(sink[s], m) ELSE sink[s]]
  ELSE sink

\* to_client.send(m) for every connection in set: Err (nothing delivered) on a
\* closed channel.
Deliver(set, m) ==
  [s \in Sessions |-> IF s \in set /\ SinkOpen(s) THEN Append(sink[s], m) ELSE sink[s]]

\* ------------------------------------------------------------- client_loop
\* Lines 95-99: the channel is created and ClientConnected sent.
SessionStart(s) ==
  /\ pc[s] = "idle"
  /\ pc' = [pc EXCEPT ![s] = "loop"]
  /\ ToServerSend(Event("ClientConnected", s, "Bid", 0, 0))
  /\ UNCHANGED <<engineVars, harnessVars, fault, actorVars, first, client_id, sink,
                 requests>>

\* The forwarding arms with `client_id.unwrap_or(0)` in place of the
\* `Some(client_id)` patterns: a request read before Connected goes out as
\* client 0's.
SessionForwardUnchecked(s) ==
  /\ pc[s] = "loop"
  /\ requests < MaxRequests
  /\ requests' = requests + 1
  /\ \E e \in Requests(IF client_id[s] = -1 THEN 0 ELSE client_id[s]) :
       ToServerSend(e)
  /\ UNCHANGED <<engineVars, harnessVars, fault, actorVars, first, pc, client_id,
                 sink>>

\* Lines 103-134, a decoded message with a client_id: the request is forwarded.
SessionForward(s) ==
  /\ pc[s] = "loop"
  /\ client_id[s] # -1
  /\ requests < MaxRequests
  /\ requests' = requests + 1
  /\ \E e \in Requests(client_id[s]) : ToServerSend(e)
  /\ UNCHANGED <<engineVars, harnessVars, fault, actorVars, first, pc, client_id, sink>>

\* Lines 117, 132: a decoded message before Connected arrived matches `_ => ()`.
SessionDrop(s) ==
  /\ pc[s] = "loop"
  /\ client_id[s] = -1
  /\ UNCHANGED vars

\* Line 116: bincode::deserialize_from(..).unwrap() panics on malformed bytes;
\* the task ends there and lines 144-146 are not run.
SessionDecodeFailure(s) ==
  /\ pc[s] = "loop"
  /\ pc' = [pc EXCEPT ![s] = "decode_panic"]
  /\ UNCHANGED <<engineVars, harnessVars, fault, actorVars, first, events, client_id, sink,
                 log, requests>>

\* Lines 106, 111-114: a read of 0 bytes or a read error breaks the loop;
\* lines 144-146 send ClientDisconnected when a client_id is held.
SessionClose(s) ==
  /\ pc[s] = "loop"
  /\ pc' = [pc EXCEPT ![s] = "done"]
  /\ IF client_id[s] # -1
     THEN ToServerSend(Event("ClientDisconnected", client_id[s], "Bid", 0, 0))
     ELSE UNCHANGED <<events, log>>
  /\ UNCHANGED <<engineVars, harnessVars, fault, actorVars, first, client_id, sink,
                 requests>>

\* Lines 135-141: a message from the channel is noted (Connected) and written to
\* the socket; a failed write panics (expect).
SessionRelay(s) ==
  /\ pc[s] = "loop"
  /\ sink[s] # <<>>
  /\ LET msg == Head(sink[s])
     IN /\ sink' = [sink EXCEPT ![s] = Tail(@)]
        /\ client_id' = IF msg.kind = "Connected"
                        THEN [client_id EXCEPT ![s] = msg.n]
                        ELSE client_id
  /\ \E written \in BOOLEAN :
       pc' = IF written THEN pc ELSE [pc EXCEPT ![s] = "write_panic"]
  /\ UNCHANGED <<engineVars, harnessVars, fault, actorVars, first, events, log, requests>>

\* ------------------------------------------------------------- server_loop
\* What handling one event leaves behind: the book, the actor's maps and
\* counters, the channels, and the panic that ended it ("none": it goes on).
Outcome(b, oc, cc, cl, co, sk, f) ==
  /\ bids' = b.bids
  /\ asks' = b.asks
  /\ orders' = b.orders
  /\ order_counter' = oc
  /\ client_counter' = cc
  /\ clients' = cl
  /\ client_orders' = co
  /\ sink' = sk
  /\ fault' = f
  /\ first' = [s \in Sessions |->
                 IF first[s].kind = "none" /\ Len(sk[s]) > Len(sink[s])
                 THEN sk[s][Len(sink[s]) + 1] ELSE first[s]]

\* A registry holding every connection whose channel is open, whether or not
\* its ClientConnected has been handled.
AllOpenSessions == {s \in Sessions : pc[s] = "loop"}

\* The connections the registry holds a sender for.
Registered == {clients[c] : c \in DOMAIN clients}

\* PlaceOrder without `order_counter += 1`.
PlaceOrderKeepsCounter(msg) ==
  LET r == on_new_order(TheBook, msg.side, msg.price, msg.quantity, order_counter)
      co == Put(client_orders, msg.who,
                Append(IF msg.who \in DOMAIN client_orders
                       THEN client_orders[msg.who] ELSE <<>>, order_counter))
      q == get_size_for_price_level(r.book, msg.side, msg.price)
  IN IF r.fault # "none"
     THEN Outcome(r.book, order_counter, client_counter, clients, client_orders,
                  sink, r.fault)
     ELSE Outcome(r.book, order_counter, client_counter, clients, co,
                  Deliver(Registered, Msg("LatestDepth", msg.side, q.value, msg.price)),
                  "none")

\* Lines 33-50.
PlaceOrder(msg) ==
  LET r == on_new_order(TheBook, msg.side, msg.price, msg.quantity, order_counter)
      co == Put(client_orders, msg.who,
                Append(IF msg.who \in DOMAIN client_orders
                       THEN client_orders[msg.who] ELSE <<>>, order_counter))
      q == get_size_for_price_level(r.book, msg.side, msg.price)
  IN IF r.fault # "none"
     THEN Outcome(r.book, order_counter, client_counter, clients, client_orders,
                  sink, r.fault)
     ELSE IF q.fault # "none"
     THEN Outcome(r.book, order_counter + 1, client_counter, clients, co, sink, q.fault)
     ELSE Outcome(r.book, order_counter + 1, client_counter, clients, co,
                  Deliver(Registered, Msg("LatestDepth", msg.side, q.value, msg.price)),
                  "none")

\* ClientConnected numbering a client by the size of the registry instead of
\* by client_counter.
ClientConnectedByLen(msg) ==
  IF SinkOpen(msg.who)
  THEN Outcome(TheBook, order_counter, client_counter + 1,
               Put(clients, Cardinality(DOMAIN clients), msg.who), client_orders,
               Deliver({msg.who},
                       Msg("Connected", "Bid", Cardinality(DOMAIN clients), 0)),
               "none")
  ELSE Outcome(TheBook, order_counter, client_counter, clients, client_orders,
               sink, "none")

\* Lines 51-59: a failed send of Connected registers nothing (continue).
ClientConnected(msg) ==
  IF SinkOpen(msg.who)
  THEN Outcome(TheBook, order_counter, client_counter + 1,
               Put(clients, client_counter, msg.who), client_orders,
               Deliver({msg.who}, Msg("Connected", "Bid", client_counter, 0)), "none")
  ELSE Outcome(TheBook, order_counter, client_counter, clients, client_orders,
               sink, "none")

RECURSIVE CancelAll(_, _)
\* Lines 63-65: on_cancel_order for each owned order, in the Vec's order; a
\* panic ends the loop.
CancelAll(b, ids) ==
  IF ids = <<>>
  THEN [book |-> b, fault |-> "none"]
  ELSE LET c == on_cancel_order(b, Head(ids))
       IN IF c.fault # "none" THEN c ELSE CancelAll(c.book, Tail(ids))

\* ClientDisconnected without `client_orders.remove(&client_id)`.
ClientDisconnectedKeepsOrders(msg) ==
  LET c == IF msg.who \in DOMAIN client_orders
           THEN CancelAll(TheBook, client_orders[msg.who])
           ELSE [book |-> TheBook, fault |-> "none"]
  IN Outcome(c.book, order_counter, client_counter,
             IF c.fault # "none" THEN clients ELSE Remove(clients, msg.who),
             client_orders, sink, c.fault)

\* ClientDisconnected telling the registered clients, after the cancellations,
\* the depth left at the level of the first order it cancelled (0 when the
\* level is gone).
ClientDisconnectedNotifies(msg) ==
  LET ids == IF msg.who \in DOMAIN client_orders
             THEN client_orders[msg.who] ELSE <<>>
      c == CancelAll(TheBook, ids)
      o == orders[Head(ids)]
      q == get_size_for_price_level(c.book, o.side, o.price)
  IN IF c.fault # "none"
     THEN Outcome(c.book, order_counter, client_counter, clients, client_orders,
                  sink, c.fault)
     ELSE Outcome(c.book, order_counter, client_counter, Remove(clients, msg.who),
                  Remove(client_orders, msg.who),
                  IF ids = <<>>
                  THEN sink
                  ELSE Deliver(Registered,
                               Msg("LatestDepth", o.side,
                                   IF q.fault = "none" THEN q.value ELSE 0, o.price)),
                  "none")

\* Lines 60-69.
ClientDisconnected(msg) ==
  LET c == IF msg.who \in DOMAIN client_orders
           THEN CancelAll(TheBook, client_orders[msg.who])
           ELSE [book |-> TheBook, fault |-> "none"]
  IN IF c.fault # "none"
     THEN Outcome(c.book, order_counter, client_counter, clients, client_orders,
                  sink, c.fault)
     ELSE Outcome(c.book, order_counter, client_counter, Remove(clients, msg.who),
                  Remove(client_orders, msg.who), sink, "none")

\* A query's answer goes to the requesting client, when it is registered.
Reply(msg, m) ==
  Outcome(TheBook, order_counter, client_counter, clients, client_orders,
          Deliver({clients[msg.who]}, m), "none")

Ignore ==
  Outcome(TheBook, order_counter, client_counter, clients, client_orders, sink, "none")

Panic(f) ==
  Outcome(TheBook, order_counter, client_counter, clients, client_orders, sink, f)

\* Lines 70-74.
GetOrderDepth(msg) ==
  IF msg.who \in DOMAIN clients
  THEN Reply(msg, Msg("BookDepth", msg.side, get_book_depth(TheBook, msg.side), 0))
  ELSE Ignore

\* Lines 75-79: get_top_of_book is evaluated, and may panic, only for a
\* registered client.
GetTopOfBook(msg) ==
  IF msg.who \in DOMAIN clients
  THEN LET r == get_top_of_book(TheBook, msg.side)
       IN IF r.fault # "none"
          THEN Panic(r.fault)
          ELSE Reply(msg, Msg("TopOfBook", msg.side, 0, r.value))
  ELSE Ignore

\* Lines 80-84.
GetSizeForPriceLevel(msg) ==
  IF msg.who \in DOMAIN clients
  THEN LET r == get_size_for_price_level(TheBook, msg.side, msg.price)
       IN IF r.fault # "none"
          THEN Panic(r.fault)
          ELSE Reply(msg, Msg("SizeForPriceLevel", msg.side, r.value, 0))
  ELSE Ignore

\* Line 31: the next event is the head of the queue.
Received == Head(events)

\* Lines 29-86: one turn of the loop on a received event. The heartbeat branch
\* (lines 87-90) prints and changes nothing.
Handle(kind) ==
  /\ fault = "none"
  /\ events # <<>>
  /\ Received.kind = kind
  /\ events' = Tail(events)
  /\ UNCHANGED <<harnessVars, pc, client_id, log, requests>>

HandlePlaceOrder == Handle("PlaceOrder") /\ PlaceOrder(Received)

HandleClientConnected == Handle("ClientConnected") /\ ClientConnected(Received)

HandleClientDisconnected == Handle("ClientDisconnected") /\ ClientDisconnected(Received)

HandleGetOrderDepth == Handle("GetOrderDepth") /\ GetOrderDepth(Received)

HandleGetTopOfBook == Handle("GetTopOfBook") /\ GetTopOfBook(Received)

HandleGetSizeForPriceLevel ==
  Handle("GetSizeForPriceLevel") /\ GetSizeForPriceLevel(Received)

ServerNext ==
  \/ HandlePlaceOrder
  \/ HandleClientConnected
  \/ HandleClientDisconnected
  \/ HandleGetOrderDepth
  \/ HandleGetTopOfBook
  \/ HandleGetSizeForPriceLevel

SessionNext ==
  \E s \in Sessions :
    \/ SessionStart(s)
    \/ SessionForward(s)
    \/ SessionDrop(s)
    \/ SessionDecodeFailure(s)
    \/ SessionClose(s)
    \/ SessionRelay(s)

Next == ServerNext \/ SessionNext

Spec == Init /\ [][Next]_vars

\* ============================================================= properties

\* The orders of the index that rest on one side at one price.
ActiveAt(b, side, price) ==
  {i \in DOMAIN b.orders : b.orders[i].side = side /\ b.orders[i].price = price}

RECURSIVE SumQuantity(_, _)
SumQuantity(b, ids) ==
  IF ids = {} THEN 0
  ELSE LET i == CHOOSE x \in ids : TRUE
       IN b.orders[i].quantity + SumQuantity(b, ids \ {i})

\* The step just taken was one turn of server_loop on the event Head(events).
HandledStep == events # <<>> /\ events' = Tail(events)

Last(seq) == seq[Len(seq)]

\* ------------------------------------------------------------- C1
\* C1: while every call so far has returned, each level present in a depth
\* map holds the sum of the quantities the index records at that side and price.
C1_DepthIsSumOfIndex ==
  fault = "none" =>
    \A side \in Sides :
      \A p \in DOMAIN BookOf(TheBook, side) :
        BookOf(TheBook, side)[p] = SumQuantity(TheBook, ActiveAt(TheBook, side, p))

\* A partial trade has just reduced one of two non-empty orders on one level.
C1_Witness ==
  /\ fault = "none"
  /\ call.op = "trade"
  /\ call.quantity > 0
  /\ call.order_id \in DOMAIN orders
  /\ \E j \in DOMAIN orders :
       /\ j # call.order_id
       /\ orders[j].side = orders[call.order_id].side
       /\ orders[j].price = orders[call.order_id].price
       /\ orders[j].quantity > 0
       /\ orders[call.order_id].quantity > 0

\* ------------------------------------------------------------- C2
\* C2 (as claimed): a trade of an order's whole positive quantity removes the
\* order from the index, and its level when the level's aggregate reaches zero.
C2_FullTradeRemovesOrder ==
  [][(/\ fault' = "none"
      /\ call'.op = "trade"
      /\ call'.order_id \in DOMAIN orders
      /\ call'.quantity > 0
      /\ call'.quantity = orders[call'.order_id].quantity)
     => LET o == orders[call'.order_id]
        IN /\ call'.order_id \notin DOMAIN orders'
           /\ \/ o.price \notin DOMAIN BookOf(TheBook', o.side)
              \/ BookOf(TheBook', o.side)[o.price] > 0]_vars

\* ------------------------------------------------------------- C3
\* C3 (as claimed): while every call so far has returned, no level is present
\* with an aggregate of 0.
C3_NoEmptyLevel ==
  fault = "none" =>
    \A side \in Sides :
      \A p \in DOMAIN BookOf(TheBook, side) : BookOf(TheBook, side)[p] > 0

\* ------------------------------------------------------------- C5
\* C5 (as claimed): a call that fails leaves both depth maps and the index as
\* they were before it.
C5_FailedCallChangesNothing ==
  [][fault' # "none" => (bids' = bids /\ asks' = asks /\ orders' = orders)]_vars

\* ------------------------------------------------------------- C10
\* C10: a trade of more than the order's current quantity fails with the
\* overtrade panic and leaves the index and both depth maps unchanged.
C10_OvertradeFailsUnchanged ==
  [][(/\ LastCall'.op = "trade"
      /\ LastCall'.order_id \in DOMAIN orders
      /\ LastCall'.quantity > orders[LastCall'.order_id].quantity)
     => (/\ fault' = "Overtrade"
         /\ orders' = orders
         /\ bids' = bids
         /\ asks' = asks)]_vars

\* An overtrade has failed on an order that the call before had partly traded.
C10_Witness ==
  /\ fault = "Overtrade"
  /\ failed.op = "trade"
  /\ call.op = "trade"
  /\ call.order_id = failed.order_id
  /\ call.quantity > 0
  /\ orders[failed.order_id].quantity > 0
  /\ failed.quantity > orders[failed.order_id].quantity
  /\ BookOf(TheBook, orders[failed.order_id].side)[orders[failed.order_id].price]
       = orders[failed.order_id].quantity

\* ------------------------------------------------------------- C4
\* The registered client whose query server_loop is about to answer.
Requester == clients[Head(events).who]

\* C4 (as claimed): a GetTopOfBook on a side without levels, or a
\* GetSizeForPriceLevel on a level that does not exist, puts one error response
\* on the requesting client's channel and on no other, and server_loop goes on.
C4_FailedQueryIsAnswered ==
  [][(/\ HandledStep
      /\ Head(events).who \in DOMAIN clients
      /\ SinkOpen(Requester)
      /\ \/ /\ Head(events).kind = "GetTopOfBook"
            /\ BookOf(TheBook, Head(events).side) = EmptyMap
         \/ /\ Head(events).kind = "GetSizeForPriceLevel"
            /\ Head(events).price \notin DOMAIN BookOf(TheBook, Head(events).side))
     => (/\ fault' = "none"
         /\ Len(sink'[Requester]) = Len(sink[Requester]) + 1
         /\ Last(sink'[Requester]).kind = "Error"
         /\ \A s \in Sessions \ {Requester} : sink'[s] = sink[s])]_vars

\* ------------------------------------------------------------- C6
\* The orders a client owns (client_orders.get(&client_id)).
Owned(c) ==
  IF c \in DOMAIN client_orders
  THEN {client_orders[c][i] : i \in DOMAIN client_orders[c]}
  ELSE {}

\* C6 (as claimed): handling ClientDisconnected(c) leaves server_loop running,
\* c in neither the registry nor the ownership map, and none of c's orders in
\* the index.
C6_DisconnectCancelsAll ==
  [][(HandledStep /\ Head(events).kind = "ClientDisconnected")
     => (/\ fault' = "none"
         /\ Head(events).who \notin DOMAIN clients'
         /\ Head(events).who \notin DOMAIN client_orders'
         /\ \A o \in Owned(Head(events).who) : o \notin DOMAIN orders')]_vars

\* ------------------------------------------------------------- C7
\* What a placement broadcasts: the aggregate at its side and price after it.
LatestDepthAfter(e) ==
  Msg("LatestDepth", e.side, BookOf(TheBook', e.side)[e.price], e.price)

\* Every channel is a queue: a step leaves it alone, takes its head or adds one
\* message at its end.
SinksAreQueues ==
  \A s \in Sessions :
    \/ sink'[s] = sink[s]
    \/ sink[s] # <<>> /\ sink'[s] = Tail(sink[s])
    \/ Len(sink'[s]) = Len(sink[s]) + 1 /\ SubSeq(sink'[s], 1, Len(sink[s])) = sink[s]

\* No session has panicked, and every session that returned held its ClientId
\* and so sent its ClientDisconnected.
AllSessionsOrderly ==
  \A s \in Sessions :
    pc[s] \in {"idle", "loop"} \/ (pc[s] = "done" /\ client_id[s] # -1)

\* C7 (as claimed): handling a PlaceOrder appends exactly one LatestDepth, with
\* the aggregate after the placement, to the channel of every registered
\* client, and channels keep the order of what the actor sends. Stated for the
\* runs in which every session is orderly, where it fails all the same.
C7_EveryRegisteredClientReceives ==
  [][/\ SinksAreQueues
     /\ (HandledStep /\ Head(events).kind = "PlaceOrder" /\ AllSessionsOrderly)
        => \A s \in Sessions :
             sink'[s] = IF s \in Registered
                        THEN Append(sink[s], LatestDepthAfter(Head(events)))
                        ELSE sink[s]]_vars

\* C7 (amended): the same for every registered client whose channel is still
\* open; a registered client whose session has ended receives nothing.
C7_EveryOpenRegisteredClientReceives ==
  [][/\ SinksAreQueues
     /\ (HandledStep /\ Head(events).kind = "PlaceOrder")
        => \A s \in Sessions :
             sink'[s] = IF s \in Registered /\ SinkOpen(s)
                        THEN Append(sink[s], LatestDepthAfter(Head(events)))
                        ELSE sink[s]]_vars

\* Two registered clients each hold the broadcasts of two placements on one
\* level, aggregate 1 and then aggregate 2, in that order.
C7_Witness ==
  /\ Cardinality(Registered) = 2
  /\ \A s \in Registered :
       /\ Len(sink[s]) >= 2
       /\ sink[s][Len(sink[s]) - 1].kind = "LatestDepth"
       /\ sink[s][Len(sink[s]) - 1].n = 1
       /\ Last(sink[s]).kind = "LatestDepth"
       /\ Last(sink[s]).n = 2
       /\ Last(sink[s]).side = sink[s][Len(sink[s]) - 1].side

\* ------------------------------------------------------------- C8
\* C8 (as claimed): a session that ended on a closed transport or a decode
\* failure while it held a ClientId has enqueued ClientDisconnected for that id
\* exactly once.
C8_DisconnectSentOnce ==
  \A s \in Sessions :
    (pc[s] \in {"done", "decode_panic"} /\ client_id[s] # -1)
      => Cardinality({i \in DOMAIN log :
                        /\ log[i].kind = "ClientDisconnected"
                        /\ log[i].who = client_id[s]}) = 1

\* ------------------------------------------------------------- C9
\* The book after the PlaceOrder and ClientDisconnected events of seq, applied
\* one after the other from an empty book: order ids are handed out in turn and
\* a disconnect cancels what its client placed.
RECURSIVE Replay(_)
Replay(seq) ==
  IF seq = <<>>
  THEN [book |-> EmptyBook, next |-> 0, owned |-> EmptyMap, fault |-> "none"]
  ELSE LET st == Replay(SubSeq(seq, 1, Len(seq) - 1))
           e == Last(seq)
           mine == IF e.who \in DOMAIN st.owned THEN st.owned[e.who] ELSE <<>>
       IN IF st.fault # "none" THEN st
          ELSE IF e.kind = "PlaceOrder"
          THEN LET r == on_new_order(st.book, e.side, e.price, e.quantity, st.next)
               IN [book |-> r.book, next |-> st.next + 1,
                   owned |-> Put(st.owned, e.who, Append(mine, st.next)),
                   fault |-> r.fault]
          ELSE LET c == CancelAll(st.book, mine)
               IN [book |-> c.book, next |-> st.next,
                   owned |-> Remove(st.owned, e.who), fault |-> c.fault]

\* What a query answers on book b.
Answered(e, b) ==
  IF e.kind = "GetOrderDepth"
  THEN Msg("BookDepth", e.side, get_book_depth(b, e.side), 0)
  ELSE IF e.kind = "GetTopOfBook"
  THEN Msg("TopOfBook", e.side, 0, get_top_of_book(b, e.side).value)
  ELSE Msg("SizeForPriceLevel", e.side, get_size_for_price_level(b, e.side, e.price).value, 0)

\* C9: server_loop handles each event on the book that results from exactly
\* the PlaceOrder and ClientDisconnected events enqueued before it, in queue
\* order, and a query's response is the query's result on that book.
C9_HandledInQueueOrder ==
  [][HandledStep =>
       LET e == Head(events)
           before == Replay(SubSeq(log, 1, e.seen))
       IN /\ TheBook = before.book
          /\ (/\ ~Mutates(e)
              /\ e.kind # "ClientConnected"
              /\ e.who \in DOMAIN clients
              /\ SinkOpen(clients[e.who])
              /\ fault' = "none")
             => sink'[clients[e.who]] =
                  Append(sink[clients[e.who]], Answered(e, before.book))]_vars

\* A client has been told the size of a level that another client's order made.
C9_Witness ==
  \E s \in Sessions :
    /\ client_id[s] # -1
    /\ sink[s] # <<>>
    /\ Last(sink[s]).kind = "SizeForPriceLevel"
    /\ Last(sink[s]).n = 1
    /\ \E i \in DOMAIN log : log[i].kind = "PlaceOrder" /\ log[i].who # client_id[s]


\* ------------------------------------------------------------- C11
\* The level at price x of map m once quantity q of the order resting at price
\* at has left it: gone when it was the order's level and reached zero.
StaysAfterLeaving(m, x, at, q) == x \in DOMAIN m /\ ~(x = at /\ m[x] = q)

LeftAfterLeaving(m, x, at, q) == IF x = at THEN m[x] - q ELSE m[x]

\* C11: a replace of an order in the index ends as cancel followed by place of
\* the same id on the same side does (a panic of the cancel ends both); when it
\* returns, the index holds the id with its side, the new price and the new
\* quantity, the old level has lost the old quantity (and is gone at zero),
\* the new level has gained the new quantity, also when both are one level,
\* and every other level is as it was.
C11_ReplaceIsCancelThenPlace ==
  [][\A id \in DOMAIN orders :
       LastCall'.op = "replace" /\ LastCall'.order_id = id =>
         LET o == orders[id]
             p == LastCall'.price
             q == LastCall'.quantity
             c == on_cancel_order(TheBook, id)
             seq == IF c.fault # "none" THEN c
                    ELSE on_new_order(c.book, o.side, p, q, id)
             old == BookOf(TheBook, o.side)
             new == BookOf(TheBook', o.side)
         IN /\ TheBook' = seq.book
            /\ fault' = seq.fault
            /\ fault' = "none" =>
                 /\ orders' = Put(orders, id,
                                  [side |-> o.side, price |-> p, quantity |-> q])
                 /\ \A side \in Sides \ {o.side} :
                      BookOf(TheBook', side) = BookOf(TheBook, side)
                 /\ DOMAIN new \subseteq DOMAIN old \cup {p}
                 /\ \A x \in DOMAIN old \cup {p} :
                      LET stays == StaysAfterLeaving(old, x, o.price, o.quantity)
                          left == LeftAfterLeaving(old, x, o.price, o.quantity)
                      IN IF x = p
                         THEN x \in DOMAIN new
                              /\ new[x] = (IF stays THEN left ELSE 0) + q
                         ELSE /\ x \in DOMAIN new <=> stays
                              /\ stays => new[x] = left]_vars

\* A replace returned that kept the order on a level it shares with another
\* order of positive quantity.
C11_Witness ==
  /\ fault = "none"
  /\ call.op = "replace"
  /\ call.order_id \in DOMAIN orders
  /\ orders[call.order_id].price = call.price
  /\ orders[call.order_id].quantity = call.quantity
  /\ call.quantity > 0
  /\ \E other \in DOMAIN orders \ {call.order_id} :
       /\ orders[other].side = orders[call.order_id].side
       /\ orders[other].price = call.price
       /\ orders[other].quantity > 0
       /\ BookOf(TheBook, orders[other].side)[call.price]
            = orders[other].quantity + call.quantity


\* ------------------------------------------------------------- C12
\* C12: in every reachable state of the engine, a place under an id the index
\* does not hold followed at once by the cancel of that id returns twice and
\* leaves both depth maps and the index as they were before the place.
C12_PlaceThenCancelRestores ==
  fault = "none" =>
    \A side \in Sides, price \in Prices, quantity \in Quantities,
       id \in OrderIds \ DOMAIN orders :
      LET placed == on_new_order(TheBook, side, price, quantity, id)
          cancelled == on_cancel_order(placed.book, id)
      IN /\ placed.fault = "none"
         /\ cancelled.fault = "none"
         /\ cancelled.book = TheBook


\* ------------------------------------------------------------- C13
\* C13: a cancel of an order in the index returns, removes that entry and no
\* other from the index, lowers the order's level by the order's quantity,
\* removes the level exactly when that leaves zero, and leaves every other
\* level and the other side as they were.
C13_CancelRemovesExactly ==
  [][\A id \in DOMAIN orders :
       LastCall'.op = "cancel" /\ LastCall'.order_id = id =>
         LET o == orders[id]
             old == BookOf(TheBook, o.side)
             new == BookOf(TheBook', o.side)
         IN /\ fault' = "none"
            /\ orders' = Remove(orders, id)
            /\ \A side \in Sides \ {o.side} :
                 BookOf(TheBook', side) = BookOf(TheBook, side)
            /\ o.price \in DOMAIN old
            /\ DOMAIN new \subseteq DOMAIN old
            /\ \A x \in DOMAIN old :
                 LET stays == StaysAfterLeaving(old, x, o.price, o.quantity)
                 IN /\ x \in DOMAIN new <=> stays
                    /\ stays => new[x] = LeftAfterLeaving(old, x, o.price,
                                                         o.quantity)]_vars


\* ------------------------------------------------------------- C14
\* The last call that returned was a trade of a positive quantity that took
\* the whole remaining quantity of the order it named.
FullyTraded(id) ==
  /\ call.op = "trade"
  /\ call.order_id = id
  /\ call.quantity > 0
  /\ id \in DOMAIN orders
  /\ orders[id].quantity = 0

\* C14: a cancel, replace or trade naming an id that was never placed, has
\* been cancelled, or has just been traded in full fails with the unknown-order
\* panic; so does a cancel that follows the successful cancel of the same id.
C14_InactiveIdFails ==
  [][\A id \in OrderIds :
       /\ LastCall'.op \in {"cancel", "replace", "trade"}
       /\ LastCall'.order_id = id
       /\ \/ id \notin DOMAIN orders
          \/ FullyTraded(id)
          \/ call.op = "cancel" /\ call.order_id = id
       => fault' = "UnknownOrderId"]_vars


\* ------------------------------------------------------------- C15
\* The prices at which the index holds an order of the side.
ActivePrices(side) ==
  {orders[id].price : id \in {i \in DOMAIN orders : orders[i].side = side}}

\* C15: top_of_book of a side panics with the empty-book message exactly when
\* the index holds no order of that side, and otherwise returns the highest
\* (Bid) or lowest (Ask) price at which the index holds an order of the side.
C15_TopOfBookIsBestActivePrice ==
  LastCall.op = "top_of_book" =>
    LET active == ActivePrices(LastCall.side)
    IN IF active = {}
       THEN fault = "EmptyBook"
       ELSE /\ fault = "none"
            /\ ret \in active
            /\ \A p \in active :
                 IF LastCall.side = "Bid" THEN p <= ret ELSE ret <= p


\* ------------------------------------------------------------- C16
\* C16: the first message a connection's channel is ever handed is Connected,
\* handed to an empty channel by the step that registers the connection under
\* the id it carries; nothing is in a channel that was handed nothing; and the
\* id a session notes is the one of that Connected. So no LatestDepth and no
\* query response is in front of a client's Connected.
C16_ConnectedComesFirst ==
  [][\A s \in Sessions :
       /\ first'[s].kind = "none" => sink'[s] = <<>> /\ client_id'[s] = -1
       /\ first[s].kind # "none" => first'[s] = first[s]
       /\ Len(sink'[s]) > Len(sink[s]) /\ first[s].kind = "none" =>
            /\ sink[s] = <<>>
            /\ sink'[s] = <<first'[s]>>
            /\ first'[s] = Msg("Connected", "Bid", client_counter, 0)
            /\ client_counter \notin DOMAIN clients
            /\ clients' = Put(clients, client_counter, s)
       /\ first'[s].kind # "none" =>
            /\ first'[s].kind = "Connected"
            /\ client_id'[s] \in {-1, first'[s].n}
            /\ \A c \in DOMAIN clients' : clients'[c] = s => c = first'[s].n]_vars

\* A LatestDepth waits behind the Connected a session has not read yet.
C16_Witness ==
  \E s \in Sessions :
    /\ client_id[s] = -1
    /\ Len(sink[s]) >= 2
    /\ sink[s][1] = first[s]
    /\ sink[s][1].kind = "Connected"
    /\ sink[s][2].kind = "LatestDepth"


\* ------------------------------------------------------------- C17
\* C17: every Connected handed to a channel carries client_counter, which that
\* step increases by one and no step decreases; so the ids sent are below the
\* counter, greater than every id sent before and different for different
\* connections, whether or not earlier holders have been deregistered. A
\* ClientConnected whose channel is closed sends nothing, registers nothing
\* and leaves the counter alone.
C17_ClientIdsNeverReused ==
  [][/\ client_counter' >= client_counter
     /\ \A s \in Sessions :
          /\ Len(sink'[s]) > Len(sink[s]) /\ Last(sink'[s]).kind = "Connected" =>
               /\ Last(sink'[s]).n = client_counter
               /\ client_counter' = client_counter + 1
               /\ \A t \in Sessions :
                    first[t].kind = "Connected" => first[t].n < client_counter
          /\ first'[s].kind = "Connected" => first'[s].n < client_counter'
          /\ \A t \in Sessions \ {s} :
               first'[s].kind = "Connected" /\ first'[t].kind = "Connected" =>
                 first'[s].n # first'[t].n
     /\ \A c \in DOMAIN clients' : c < client_counter'
     /\ HandledStep /\ Received.kind = "ClientConnected" /\ ~SinkOpen(Received.who) =>
          UNCHANGED <<actorVars, sink, first, fault>>]_vars

\* Two ids have been handed out; the holder of the first has been deregistered
\* and the holder of the second is registered.
C17_Witness ==
  \E s, t \in Sessions :
    /\ first[s] = Msg("Connected", "Bid", 0, 0)
    /\ first[t] = Msg("Connected", "Bid", 1, 0)
    /\ pc[s] = "done"
    /\ DOMAIN clients = {1}
    /\ clients[1] = t
    /\ client_counter = 2


\* ------------------------------------------------------------- C18
\* C18: every PlaceOrder the actor handles places the order under
\* order_counter, an id the index does not hold, and increases the counter by
\* one; the counter never decreases and every id in the index or in an owned
\* list is below it, so each id is greater than all ids assigned before; and
\* the actor never ends with the duplicate-id panic.
C18_OrderIdsStrictlyIncrease ==
  [][/\ order_counter' >= order_counter
     /\ fault' # "DuplicateOrderId"
     /\ \A o \in DOMAIN orders' : o < order_counter'
     /\ \A c \in DOMAIN client_orders' :
          \A i \in DOMAIN client_orders'[c] : client_orders'[c][i] < order_counter'
     /\ HandledStep /\ Received.kind = "PlaceOrder" =>
          /\ order_counter \notin DOMAIN orders
          /\ order_counter' = order_counter + 1
          /\ order_counter \in DOMAIN orders'
          /\ orders'[order_counter] = [side |-> Received.side,
                                       price |-> Received.price,
                                       quantity |-> Received.quantity]
          /\ Received.who \in DOMAIN client_orders'
          /\ Last(client_orders'[Received.who]) = order_counter]_vars

\* Two orders have been placed; the first was cancelled by its owner's
\* disconnect and the second rests under the next id.
C18_Witness ==
  /\ fault = "none"
  /\ order_counter = 2
  /\ DOMAIN orders = {1}
  /\ \E c \in DOMAIN client_orders : client_orders[c] = <<1>>
  /\ \E i \in DOMAIN log : log[i].kind = "ClientDisconnected"


\* ------------------------------------------------------------- C19
\* The connections with an entry in the registry.
InRegistry(s) == \E c \in DOMAIN clients : clients[c] = s

\* C19: when the actor handles a PlaceOrder while the registry holds a
\* connection whose channel is closed, the order is in the index and in its
\* level afterwards, every registered connection with an open channel is handed
\* the LatestDepth of that level, the closed ones are handed nothing, the
\* registry is as it was and the actor has not ended.
C19_ClosedSinkDoesNotStopBroadcast ==
  [][/\ HandledStep
     /\ Received.kind = "PlaceOrder"
     /\ \E s \in Sessions : InRegistry(s) /\ ~SinkOpen(s)
     => LET e == Received
            old == BookOf(TheBook, e.side)
            level == (IF e.price \in DOMAIN old THEN old[e.price] ELSE 0) + e.quantity
        IN /\ fault' = "none"
           /\ order_counter \in DOMAIN orders'
           /\ orders'[order_counter] =
                [side |-> e.side, price |-> e.price, quantity |-> e.quantity]
           /\ e.price \in DOMAIN BookOf(TheBook', e.side)
           /\ BookOf(TheBook', e.side)[e.price] = level
           /\ clients' = clients
           /\ \A t \in Sessions :
                sink'[t] = IF InRegistry(t) /\ SinkOpen(t)
                           THEN Append(sink[t],
                                       Msg("LatestDepth", e.side, level, e.price))
                           ELSE sink[t]]_vars

\* Connection s was registered first and closed without reading anything: its
\* channel holds its Connected only. Connection t, registered after it, was
\* handed a LatestDepth and after that the answer to a query.
C19_Witness ==
  \E s, t \in Sessions :
    /\ fault = "none"
    /\ InRegistry(s) /\ InRegistry(t)
    /\ pc[s] = "done"
    /\ client_id[s] = -1
    /\ sink[s] = <<Msg("Connected", "Bid", 0, 0)>>
    /\ first[t] = Msg("Connected", "Bid", 1, 0)
    /\ \E i, j \in DOMAIN sink[t] :
         /\ i < j
         /\ sink[t][i].kind = "LatestDepth"
         /\ sink[t][j].kind = "BookDepth"


\* ------------------------------------------------------------- C20
\* The entries of the owned lists: <<client, position>>.
OwnedEntries ==
  UNION {{<<c, i>> : i \in DOMAIN client_orders[c]} : c \in DOMAIN client_orders}

\* C20: while the actor runs, every id in a client's owned list is in the
\* engine's index, and no id is listed twice, in one list or in two.
C20_OwnedOrdersAreIndexed ==
  fault = "none" =>
    /\ \A e \in OwnedEntries : client_orders[e[1]][e[2]] \in DOMAIN orders
    /\ \A e, f \in OwnedEntries :
         e # f => client_orders[e[1]][e[2]] # client_orders[f[1]][f[2]]

\* Two clients own one resting order each.
C20_Witness ==
  /\ fault = "none"
  /\ \E c, d \in DOMAIN client_orders :
       /\ c # d
       /\ Len(client_orders[c]) = 1
       /\ Len(client_orders[d]) = 1
       /\ client_orders[c][1] \in DOMAIN orders
       /\ client_orders[d][1] \in DOMAIN orders


\* ------------------------------------------------------------- C21
RequestKinds == {"PlaceOrder", "GetOrderDepth", "GetTopOfBook", "GetSizeForPriceLevel"}

\* Session s has taken Connected(c) from its channel: it was the first message
\* the channel was handed, it is no longer waiting there, and s has noted c.
HasReceived(s, c) ==
  /\ first[s] = Msg("Connected", "Bid", c, 0)
  /\ client_id[s] = c
  /\ \A i \in DOMAIN sink[s] : sink[s][i].kind # "Connected"

\* C21: a step that enqueues a request is taken while a running session has
\* received the Connected carrying the request's ClientId, and that session is
\* the only one whose channel was ever handed that id; a session notes no id
\* but the one of the Connected it has received; and while no running session
\* has received its Connected, no request is enqueued.
C21_RequestsCarryOwnId ==
  [][/\ \A s \in Sessions :
          client_id'[s] # -1 =>
            /\ first'[s] = Msg("Connected", "Bid", client_id'[s], 0)
            /\ \A i \in DOMAIN sink'[s] : sink'[s][i].kind # "Connected"
     /\ Len(events') > Len(events) /\ Last(events').kind \in RequestKinds =>
          LET e == Last(events')
          IN /\ \E s \in Sessions : pc[s] = "loop" /\ HasReceived(s, e.who)
             /\ \A s, t \in Sessions :
                  first[s].kind = "Connected" /\ first[s].n = e.who
                  /\ first[t].kind = "Connected" /\ first[t].n = e.who
                  => s = t
     /\ (\A s \in Sessions : pc[s] = "loop" => client_id[s] = -1) =>
          /\ requests' = requests
          /\ Len(events') > Len(events) => Last(events').kind \notin RequestKinds]_vars

\* A request of a session that has received its Connected is queued while
\* another running session, whose Connected is still waiting in its channel,
\* has forwarded nothing.
C21_Witness ==
  \E s, t \in Sessions :
    /\ s # t
    /\ pc[s] = "loop"
    /\ client_id[s] # -1
    /\ \E i \in DOMAIN events :
         events[i].kind \in RequestKinds /\ events[i].who = client_id[s]
    /\ pc[t] = "loop"
    /\ client_id[t] = -1
    /\ sink[t] # <<>>
    /\ Head(sink[t]).kind = "Connected"
    /\ \A i \in DOMAIN events : events[i].who # Head(sink[t]).n
    /\ \A i \in DOMAIN log : log[i].who # Head(sink[t]).n


\* ------------------------------------------------------------- C22
\* C22: while the actor runs, the registry entry of a session that has
\* returned from client_loop has a ClientDisconnected for its id waiting in
\* the queue; an entry without one stays for good, since a session that has
\* returned sends nothing more and nothing else removes entries.
C22_ReturnedSessionIsDeregistered ==
  fault = "none" =>
    \A c \in DOMAIN clients :
      pc[clients[c]] = "done" =>
        \E i \in DOMAIN events :
          events[i].kind = "ClientDisconnected" /\ events[i].who = c


\* ------------------------------------------------------------- C23
\* C23: after every call that returned, the price of each order in the index
\* is a level of its side's depth map; and no call ends with the panic of a
\* level that was not found.
C23_IndexedOrderHasLevel ==
  /\ fault = "none" =>
       \A id \in DOMAIN orders :
         orders[id].price \in DOMAIN BookOf(TheBook, orders[id].side)
  /\ fault # "MissingLevel"


\* ------------------------------------------------------------- C24
\* C24: the step that handles a ClientDisconnected leaves every channel as it
\* was, whether its cancellations return or panic; and a LatestDepth is handed
\* to a channel only by a step that handles a PlaceOrder.
C24_DisconnectNotifiesNobody ==
  [][/\ HandledStep /\ Received.kind = "ClientDisconnected" => sink' = sink
     /\ \A s \in Sessions :
          Len(sink'[s]) > Len(sink[s]) /\ Last(sink'[s]).kind = "LatestDepth" =>
            HandledStep /\ Received.kind = "PlaceOrder"]_vars

\* The one order placed has been cancelled by its owner's disconnect, which
\* has been handled; a registered session that has not read anything yet holds
\* all it was ever handed: its Connected and the placement's LatestDepth.
C24_Witness ==
  \E t \in Sessions :
    /\ fault = "none"
    /\ events = <<>>
    /\ order_counter = 1
    /\ orders = EmptyMap
    /\ \E i \in DOMAIN log : log[i].kind = "ClientDisconnected" /\ log[i].who = 0
    /\ \E i \in DOMAIN log : log[i].kind = "PlaceOrder" /\ log[i].quantity > 0
    /\ DOMAIN clients = {1}
    /\ clients[1] = t
    /\ pc[t] = "loop"
    /\ client_id[t] = -1
    /\ Len(sink[t]) = 2
    /\ sink[t][1] = Msg("Connected", "Bid", 1, 0)
    /\ sink[t][2].kind = "LatestDepth"

=============================================================================
